---- MODULE Spec2Model ----
(***************************************************************************)
(* The q4_0 x q8_0 quantized dot product of llama-opt: the upstream kernel *)
(* vec_dot_q4_0_q8_0_original, the 4-way unrolled kernel                   *)
(* vec_dot_q4_0_q8_0_optimized (src/llama-opt/q4_0_optimized.c) and the    *)
(* benchmark driver that compares them (src/llama-opt/benchmark.c).        *)
(*                                                                         *)
(* Every float of the C code is an IEEE-754 binary32 value, kept here as a *)
(* record [c, s, m, e]: class, sign, 24-bit significand and exponent of    *)
(* the last significand bit, value (-1)^s * m * 2^e.  Every float          *)
(* operation is evaluated on its own and rounded to nearest, ties to even  *)
(* (the file header of q4_0_optimized.c: vmlaq_n_f32 is FMUL + FADD).      *)
(* All integers of the model stay below 2^31.                              *)
(***************************************************************************)
EXTENDS Integers, Sequences, FiniteSets, TLC

\* ------------------------------------------------------------ integers

Pow2Table ==
  <<1, 2, 4, 8, 16, 32, 64, 128, 256, 512, 1024, 2048, 4096, 8192, 16384,
    32768, 65536, 131072, 262144, 524288, 1048576, 2097152, 4194304,
    8388608, 16777216, 33554432, 67108864, 134217728, 268435456,
    536870912, 1073741824>>

Pow2(k) == Pow2Table[k + 1]

RECURSIVE BitLen(_)
BitLen(v) == IF v = 0 THEN 0 ELSE 1 + BitLen(v \div 2)

Abs(v) == IF v < 0 THEN -v ELSE v

\* a & b and a | b of C on non-negative operands, bit by bit
RECURSIVE BitAnd(_, _)
BitAnd(a, b) ==
  IF a = 0 \/ b = 0 THEN 0
  ELSE (IF a % 2 = 1 /\ b % 2 = 1 THEN 1 ELSE 0) + 2 * BitAnd(a \div 2, b \div 2)

RECURSIVE BitOr(_, _)
BitOr(a, b) ==
  IF a = 0 THEN b
  ELSE IF b = 0 THEN a
  ELSE (IF a % 2 = 1 \/ b % 2 = 1 THEN 1 ELSE 0) + 2 * BitOr(a \div 2, b \div 2)

\* a >> k and a << k of C on a non-negative operand
ShiftRight(a, k) == a \div Pow2(k)
ShiftLeft(a, k) == a * Pow2(k)

\* the value of an 8-bit pattern read as int8_t, and back
ToInt8(v) == ((v + 128) % 256) - 128
ToUint8(v) == v % 256

\* ------------------------------------------------------------ binary32

FZero(s) == [c |-> "fin", s |-> s, m |-> 0, e |-> 0]
FInf(s) == [c |-> "inf", s |-> s, m |-> 0, e |-> 0]
FNaN == [c |-> "nan", s |-> 0, m |-> 0, e |-> 0]

\* a normalised significand with its exponent; beyond FLT_MAX it is infinity
Pack(s, m, e) ==
  IF e + 23 > 127 THEN FInf(s) ELSE [c |-> "fin", s |-> s, m |-> m, e |-> e]

\* M * 2^E (plus a fraction of 2^E when sticky) rounded to 24 bits,
\* to nearest, ties to even
RoundPack(s, M, E, sticky) ==
  IF M = 0 THEN FZero(s)
  ELSE LET L == BitLen(M) IN
    IF L <= 24 THEN Pack(s, M * Pow2(24 - L), E - (24 - L))
    ELSE LET sh == L - 24
             q == M \div Pow2(sh)
             r == M % Pow2(sh)
             half == Pow2(sh - 1)
             up == r > half \/ (r = half /\ (sticky \/ q % 2 = 1))
             m1 == IF up THEN q + 1 ELSE q
         IN IF m1 = 16777216 THEN Pack(s, 8388608, E + sh + 1)
            ELSE Pack(s, m1, E + sh)

IsZero(a) == a.c = "fin" /\ a.m = 0
IsFinite(a) == a.c = "fin"

FNeg(a) == IF a.c = "nan" THEN a ELSE [a EXCEPT !.s = 1 - a.s]
fabsf(a) == IF a.c = "nan" THEN a ELSE [a EXCEPT !.s = 0]

\* |a| >= |b| for finite non-zero a, b
MagGe(a, b) == a.e > b.e \/ (a.e = b.e /\ a.m >= b.m)

\* a + b of two finite non-zero floats with |a| >= |b|
AddOrdered(a, b) ==
  LET d == a.e - b.e IN
  IF d >= 26 THEN a
  ELSE LET A == a.m * 32
           B == b.m * 32
           Bq == B \div Pow2(d)
           st == B % Pow2(d) # 0
       IN IF a.s = b.s THEN RoundPack(a.s, A + Bq, a.e - 5, st)
          ELSE IF st THEN RoundPack(a.s, A - Bq - 1, a.e - 5, TRUE)
          ELSE IF A = Bq THEN FZero(0)
          ELSE RoundPack(a.s, A - Bq, a.e - 5, FALSE)

\* a + b
FAdd(a, b) ==
  IF a.c = "nan" \/ b.c = "nan" THEN FNaN
  ELSE IF a.c = "inf" THEN (IF b.c = "inf" /\ b.s # a.s THEN FNaN ELSE a)
  ELSE IF b.c = "inf" THEN b
  ELSE IF a.m = 0 /\ b.m = 0 THEN FZero(IF a.s = 1 /\ b.s = 1 THEN 1 ELSE 0)
  ELSE IF a.m = 0 THEN b
  ELSE IF b.m = 0 THEN a
  ELSE IF MagGe(a, b) THEN AddOrdered(a, b) ELSE AddOrdered(b, a)

\* a - b
FSub(a, b) == FAdd(a, FNeg(b))

\* a * b
FMul(a, b) ==
  LET s == (a.s + b.s) % 2 IN
  IF a.c = "nan" \/ b.c = "nan" THEN FNaN
  ELSE IF a.c = "inf" \/ b.c = "inf" THEN
    (IF IsZero(a) \/ IsZero(b) THEN FNaN ELSE FInf(s))
  ELSE IF a.m = 0 \/ b.m = 0 THEN FZero(s)
  ELSE LET ah == a.m \div 4096
           al == a.m % 4096
           bh == b.m \div 4096
           bl == b.m % 4096
           mid == ah * bl + al * bh
           low == al * bl + (mid % 4096) * 4096
           lo == low % 16777216
           hi == ah * bh + mid \div 4096 + low \div 16777216
       IN RoundPack(s, hi * 64 + lo \div 262144, a.e + b.e + 18,
                    lo % 262144 # 0)

\* the quotient bits of num / den, one per step, with the last remainder
RECURSIVE LongDiv(_, _, _, _)
LongDiv(q, r, den, steps) ==
  IF steps = 0 THEN <<q, r>>
  ELSE LET r2 == 2 * r IN
       IF r2 >= den THEN LongDiv(2 * q + 1, r2 - den, den, steps - 1)
       ELSE LongDiv(2 * q, r2, den, steps - 1)

\* a / b
FDiv(a, b) ==
  LET s == (a.s + b.s) % 2 IN
  IF a.c = "nan" \/ b.c = "nan" THEN FNaN
  ELSE IF a.c = "inf" THEN (IF b.c = "inf" THEN FNaN ELSE FInf(s))
  ELSE IF b.c = "inf" THEN FZero(s)
  ELSE IF b.m = 0 THEN (IF a.m = 0 THEN FNaN ELSE FInf(s))
  ELSE IF a.m = 0 THEN FZero(s)
  ELSE LET qr == LongDiv(a.m \div b.m, a.m % b.m, b.m, 26)
       IN RoundPack(s, qr[1], a.e - b.e - 26, qr[2] # 0)

\* a < b and a == b of C (false when either is a NaN)
FLt(a, b) ==
  LET d == FSub(a, b) IN d.c # "nan" /\ d.s = 1 /\ ~IsZero(d)
FEq(a, b) ==
  a.c # "nan" /\ b.c # "nan" /\ (a = b \/ (IsZero(a) /\ IsZero(b)))

\* (float)v of an int v, |v| < 2^30
IntToFloat(v) == RoundPack(IF v < 0 THEN 1 ELSE 0, Abs(v), 0, FALSE)

\* ------------------------------------------------------------ fp16

\* fp16_to_fp32: the value of the 16 stored bits h (__fp16 to float is exact)
fp16_to_fp32(h) ==
  LET s == h \div 32768
      ex == (h \div 1024) % 32
      mn == h % 1024
  IN IF ex = 31 THEN (IF mn = 0 THEN FInf(s) ELSE FNaN)
     ELSE IF ex = 0 THEN RoundPack(s, mn, -24, FALSE)
     ELSE RoundPack(s, 1024 + mn, ex - 25, FALSE)

\* q * 2^sh <= m < (q + 1) * 2^sh rounded to nearest, ties to even
RoundShift(m, sh) ==
  IF sh > 25 THEN 0
  ELSE LET q == m \div Pow2(sh)
           r == m % Pow2(sh)
           half == Pow2(sh - 1)
       IN IF r > half \/ (r = half /\ q % 2 = 1) THEN q + 1 ELSE q

\* fp32_to_fp16: the 16 bits of (__fp16)f
fp32_to_fp16(f) ==
  IF f.c = "nan" THEN 32256
  ELSE IF f.c = "inf" THEN f.s * 32768 + 31744
  ELSE IF f.m = 0 THEN f.s * 32768
  ELSE IF f.e + 23 >= -14 THEN
    LET q == RoundShift(f.m, 13)
        ex == IF q = 2048 THEN f.e + 24 ELSE f.e + 23
        mn == IF q = 2048 THEN 0 ELSE q - 1024
    IN IF ex > 15 THEN f.s * 32768 + 31744
       ELSE f.s * 32768 + (ex + 15) * 1024 + mn
  ELSE f.s * 32768 + RoundShift(f.m, (-24) - f.e)

\* ------------------------------------------------------------ blocks

QK4_0 == 32
QK8_0 == 32

\* The float literals of benchmark.c, as binary32 values.
F_0_1 == [c |-> "fin", s |-> 0, m |-> 13421773, e |-> -27]
F_0_001 == [c |-> "fin", s |-> 0, m |-> 8589935, e |-> -33]
F_0_05 == [c |-> "fin", s |-> 0, m |-> 13421773, e |-> -28]
F_0_002 == [c |-> "fin", s |-> 0, m |-> 8589935, e |-> -32]
F_1e_10 == [c |-> "fin", s |-> 0, m |-> 14411519, e |-> -57]

\* generate_q4_0_blocks: block i of the weight buffer (d, 16 packed bytes)
generate_q4_0_blocks(i) ==
  [d |-> fp32_to_fp16(FAdd(F_0_1, FMul(F_0_001, IntToFloat(i % 100)))),
   qs |-> [j \in 1..(QK4_0 \div 2) |-> ToUint8((i * 7 + (j - 1) * 13) % 256)]]

\* generate_q8_0_blocks: block i of the activation buffer (d, 32 int8)
generate_q8_0_blocks(i) ==
  [d |-> fp32_to_fp16(FAdd(F_0_05, FMul(F_0_002, IntToFloat(i % 50)))),
   qs |-> [j \in 1..QK8_0 |-> ToInt8(((i * 11 + (j - 1) * 17) % 256) - 128)]]

\* A buffer is kept either as its blocks or, when a generator filled it,
\* as the rule that filled it: block i (from 0) of a weight / activation buffer.
XBlock(buf, i) ==
  IF buf.fill = "generate" THEN generate_q4_0_blocks(i) ELSE buf.blocks[i + 1]
YBlock(buf, i) ==
  IF buf.fill = "generate" THEN generate_q8_0_blocks(i) ELSE buf.blocks[i + 1]

\* ------------------------------------------------------------ NEON intrinsics

vdupq_n_u8(v) == [j \in 1..16 |-> v]
vdupq_n_s8(v) == [j \in 1..16 |-> v]
vdupq_n_s32(v) == [l \in 1..4 |-> v]
vdupq_n_f32(v) == [l \in 1..4 |-> v]
\* 16 bytes from qs + off
vld1q_u8(qs, off) == [j \in 1..16 |-> qs[off + j]]
vld1q_s8(qs, off) == [j \in 1..16 |-> qs[off + j]]
vandq_u8(a, b) == [j \in 1..16 |-> BitAnd(a[j], b[j])]
vshrq_n_u8(a, k) == [j \in 1..16 |-> ShiftRight(a[j], k)]
vreinterpretq_s8_u8(a) == [j \in 1..16 |-> ToInt8(a[j])]
vsubq_s8(a, b) == [j \in 1..16 |-> ToInt8(a[j] - b[j])]
\* SDOT: each 32-bit lane adds the dot product of its four byte pairs
vdotq_s32(r, a, b) ==
  [l \in 1..4 |-> r[l] + a[4 * l - 3] * b[4 * l - 3] + a[4 * l - 2] * b[4 * l - 2]
                       + a[4 * l - 1] * b[4 * l - 1] + a[4 * l] * b[4 * l]]
\* (mutant) the lanes converted through half precision
vcvtq_f16_s32(p) == [l \in 1..4 |-> fp16_to_fp32(fp32_to_fp16(IntToFloat(p[l])))]
vcvtq_f32_s32(p) == [l \in 1..4 |-> IntToFloat(p[l])]
\* a + b * c in every lane, the product rounded before the sum
vmlaq_n_f32(a, b, c) == [l \in 1..4 |-> FAdd(a[l], FMul(b[l], c))]
vaddq_f32(a, b) == [l \in 1..4 |-> FAdd(a[l], b[l])]
\* FADDP twice: (a0 + a1) + (a2 + a3)
vaddvq_f32(a) == FAdd(FAdd(a[1], a[2]), FAdd(a[3], a[4]))

\* ------------------------------------------------------------ state

VARIABLES
  n, x, y,                  \* the caller's element count and its two buffers
  sx, sy,                   \* the size sweep's buffers (benchmark.c)
  result_orig, result_opt,  \* the caller's two output floats
  sr,                       \* the size sweep's output float
  mpc, i, si, rel_err, status, ret,   \* main: position, loop counters, check
  pc, arg,                  \* the running kernel: position, its arguments
  ib, sumf, sumv0, sumv1, sumv2, sumv3, sv0, sv1,   \* the kernel's locals
  log, terms, hints, writes, entry, hist   \* history of the calls (not program state)

mem == <<x, y, sx, sy>>
outs == <<result_orig, result_opt, sr>>
mainvars == <<mpc, n, i, si, rel_err, status, ret>>
locals == <<ib, sumf, sumv0, sumv1, sumv2, sumv3, sv0, sv1>>
history == <<log, terms, hints, writes, entry, hist>>
vars == <<mem, outs, mainvars, pc, arg, locals, history>>

\* the buffer behind the pointer vx / vy of the running call
Deref(name) ==
  CASE name = "x" -> x [] name = "y" -> y [] name = "sx" -> sx [] name = "sy" -> sy

\* const int nb = n / qk
nb == arg.n \div QK4_0

\* ------------------------------------------------------------ one block

\* The vector nibble decode of the original kernel's pair loop: the 16 low
\* nibbles and the 16 high nibbles of the packed bytes v, each minus 8 in
\* int8 lanes.
\* (mutant) the decode with a 3-bit mask
VectorNibblesMask7(v) ==
  LET m4b == vdupq_n_u8(7)
      s8b == vdupq_n_s8(8)
      v0l == vreinterpretq_s8_u8(vandq_u8(v, m4b))
      v0h == vreinterpretq_s8_u8(vshrq_n_u8(v, 4))
  IN [ls |-> vsubq_s8(v0l, s8b), hs |-> vsubq_s8(v0h, s8b)]

VectorNibbles(v) ==
  LET m4b == vdupq_n_u8(15)
      s8b == vdupq_n_s8(8)
      v0l == vreinterpretq_s8_u8(vandq_u8(v, m4b))
      v0h == vreinterpretq_s8_u8(vshrq_n_u8(v, 4))
  IN [ls |-> vsubq_s8(v0l, s8b), hs |-> vsubq_s8(v0h, s8b)]

\* (mutant) the scalar decode with zero point 7
ScalarNibblesZeroPoint7(b) == <<BitAnd(b, 15) - 7, ShiftRight(b, 4) - 7>>
\* The scalar nibble decode of the single-block loops: <<v0, v1>> of byte b
ScalarNibbles(b) == <<BitAnd(b, 15) - 8, ShiftRight(b, 4) - 8>>

\* The integer lanes of one block in the pair loop of the original kernel:
\* decode, load the two activation halves, two chained SDOTs.
OrigPairDot(xb, yb) ==
  LET v0 == VectorNibbles(vld1q_u8(xb.qs, 0))
      v1l == vld1q_s8(yb.qs, 0)
      v1h == vld1q_s8(yb.qs, 16)
  IN vdotq_s32(vdotq_s32(vdupq_n_s32(0), v0.ls, v1l), v0.hs, v1h)

\* (mutant) PROCESS_BLOCK with the two activation halves exchanged
ProcessBlockDotSwapped(xb, yb) ==
  LET m4b == vdupq_n_u8(15)
      s8b == vdupq_n_s8(8)
      qx == vld1q_u8(xb.qs, 0)
      qxl == vsubq_s8(vreinterpretq_s8_u8(vandq_u8(qx, m4b)), s8b)
      qxh == vsubq_s8(vreinterpretq_s8_u8(vshrq_n_u8(qx, 4)), s8b)
      qyl == vld1q_s8(yb.qs, 0)
      qyh == vld1q_s8(yb.qs, 16)
  IN vdotq_s32(vdotq_s32(vdupq_n_s32(0), qxl, qyh), qxh, qyl)

\* PROCESS_BLOCK up to its integer lanes p
ProcessBlockDot(xb, yb) ==
  LET m4b == vdupq_n_u8(15)
      s8b == vdupq_n_s8(8)
      qx == vld1q_u8(xb.qs, 0)
      qxl == vsubq_s8(vreinterpretq_s8_u8(vandq_u8(qx, m4b)), s8b)
      qxh == vsubq_s8(vreinterpretq_s8_u8(vshrq_n_u8(qx, 4)), s8b)
      qyl == vld1q_s8(yb.qs, 0)
      qyh == vld1q_s8(yb.qs, 16)
  IN vdotq_s32(vdotq_s32(vdupq_n_s32(0), qxl, qyl), qxh, qyh)

\* The integer lanes of one block in the 2-block remainder loop of the
\* optimized kernel.
OptPairDot(xb, yb) ==
  LET m4b == vdupq_n_u8(15)
      s8b == vdupq_n_s8(8)
      v0 == vld1q_u8(xb.qs, 0)
      v0l == vsubq_s8(vreinterpretq_s8_u8(vandq_u8(v0, m4b)), s8b)
      v0h == vsubq_s8(vreinterpretq_s8_u8(vshrq_n_u8(v0, 4)), s8b)
      v1l == vld1q_s8(yb.qs, 0)
      v1h == vld1q_s8(yb.qs, 16)
  IN vdotq_s32(vdotq_s32(vdupq_n_s32(0), v0l, v1l), v0h, v1h)

\* The inner loop of the single-block loops, from byte j on: <<sumi0, sumi1>>
RECURSIVE ScalarSums(_, _, _, _, _)
ScalarSums(xb, yb, j, sumi0, sumi1) ==
  IF ~(j < QK4_0 \div 2) THEN <<sumi0, sumi1>>
  ELSE LET v == ScalarNibbles(xb.qs[j + 1])
       IN ScalarSums(xb, yb, j + 1, sumi0 + v[1] * yb.qs[j + 1],
                     sumi1 + v[2] * yb.qs[j + (QK4_0 \div 2) + 1])

ScalarDot(xb, yb) == ScalarSums(xb, yb, 0, 0, 0)

\* One accumulated term of a vector loop: the lanes p of the packed data of
\* weight block xq and the elements of activation block yq, and the scale
\* product of weight block xd and activation block yd.
VecTerm(path, xq, yq, xd, yd) ==
  LET vx == Deref(arg.vx)
      vy == Deref(arg.vy)
      xb == XBlock(vx, xq)
      yb == YBlock(vy, yq)
  IN [path |-> path, xq |-> xq, yq |-> yq, xd |-> xd, yd |-> yd,
      p |-> CASE path = "orig_pair" -> OrigPairDot(xb, yb)
              [] path = "quad" -> ProcessBlockDot(xb, yb)
              [] path = "opt_pair" -> OptPairDot(xb, yb),
      sc |-> FMul(fp16_to_fp32(XBlock(vx, xd).d), fp16_to_fp32(YBlock(vy, yd).d))]

\* acc = vmlaq_n_f32(acc, vcvtq_f32_s32(p), scale)
Accumulate(acc, t) == vmlaq_n_f32(acc, vcvtq_f32_s32(t.p), t.sc)

\* The term of a single-block loop: (sumi0 + sumi1) * d_x * d_y
ScalarTerm(xq, yq, xd, yd) ==
  LET vx == Deref(arg.vx)
      vy == Deref(arg.vy)
      sums == ScalarDot(XBlock(vx, xq), YBlock(vy, yq))
  IN [path |-> "scalar", xq |-> xq, yq |-> yq, xd |-> xd, yd |-> yd,
      p |-> sums,
      sc |-> FMul(FMul(IntToFloat(sums[1] + sums[2]),
                       fp16_to_fp32(XBlock(vx, xd).d)),
                  fp16_to_fp32(YBlock(vy, yd).d))]

Log(ts) == IF log THEN terms \o ts ELSE terms

\* (mutant) the prefetches four blocks nearer
PrefetchNear(b) ==
  <<[buf |-> "x", idx |-> b + 4], [buf |-> "y", idx |-> b + 4],
    [buf |-> "y", idx |-> b + 6]>>
\* __builtin_prefetch(&x[ib + 8], 0, 1); __builtin_prefetch(&y[ib + 8], 0, 1);
\* __builtin_prefetch(&y[ib + 10], 0, 1): three addresses handed to the memory
\* system, nothing loaded
Prefetch(b) ==
  <<[buf |-> "x", idx |-> b + 8], [buf |-> "y", idx |-> b + 8],
    [buf |-> "y", idx |-> b + 10]>>
Hint(hs) == IF log THEN hints \o hs ELSE hints

\* ------------------------------------------------------------ the kernels

\* The blocks of one iteration of each loop, as the source indexes them.
\* original, pair loop: x0 = &x[ib + 0], x1 = &x[ib + 1], y0, y1 alike
OrigPairTerms(b) ==
  <<VecTerm("orig_pair", b + 0, b + 0, b + 0, b + 0),
    VecTerm("orig_pair", b + 1, b + 1, b + 1, b + 1)>>
\* (mutant) PROCESS_BLOCK taking the activation scale of the group's first block
ProcessBlockTermHoisted(b, IDX) ==
  VecTerm("quad", b + IDX, b + IDX, b + IDX, b)
\* optimized, PROCESS_BLOCK(IDX, ACC): x[ib + (IDX)], y[ib + (IDX)]
ProcessBlockTerm(b, IDX) ==
  VecTerm("quad", b + IDX, b + IDX, b + IDX, b + IDX)
\* optimized, 2-block remainder loop: x[ib], x[ib+1], y[ib], y[ib+1]
OptPairTerms(b) ==
  <<VecTerm("opt_pair", b, b, b, b),
    VecTerm("opt_pair", b + 1, b + 1, b + 1, b + 1)>>
\* (mutant) the single-block loop taking the weight scale of block 0
SingleTermFirstScale(b) == ScalarTerm(b, b, 0, b)
\* both kernels, single-block loop: x[ib], y[ib]
SingleTerm(b) == ScalarTerm(b, b, b, b)

ZeroV == vdupq_n_f32(FZero(0))

\* The conditions of the four kinds of for loop.
OrigPairCond == ib + 1 < nb
\* (mutant) the 4-wide loop stopping one group early
OptQuadCondOffByOne == ib + 4 < nb
OptQuadCond == ib + 3 < nb
OptPairCond == ib + 1 < nb
SingleCond == ib < nb

\* (mutant) the original kernel with static accumulators, set only once
EnterOriginalStatic(callN, sName, xName, yName) ==
  /\ arg' = [kernel |-> "original", n |-> callN, s |-> sName,
             vx |-> xName, vy |-> yName]
  /\ pc' = "o_pair"
  /\ ib' = 0
  /\ UNCHANGED <<sumf, sumv0, sumv1, sumv2, sumv3, sv0, sv1>>
  /\ writes' = 0
  /\ terms' = <<>>
  /\ hints' = <<>>
  /\ entry' = [x |-> Deref(xName), y |-> Deref(yName), outs |-> outs]
  /\ UNCHANGED <<mem, outs, log, hist>>

\* The call: the arguments, and the declarations with initialisers.
EnterOriginal(callN, sName, xName, yName) ==
  /\ arg' = [kernel |-> "original", n |-> callN, s |-> sName,
             vx |-> xName, vy |-> yName]
  /\ pc' = "o_pair"
  /\ sumf' = FZero(0)
  /\ ib' = 0
  /\ sumv0' = ZeroV
  /\ sumv1' = ZeroV
  /\ UNCHANGED <<sumv2, sumv3, sv0, sv1>>
  /\ writes' = 0
  /\ terms' = <<>>
  /\ hints' = <<>>
  /\ entry' = [x |-> Deref(xName), y |-> Deref(yName), outs |-> outs]
  /\ UNCHANGED <<mem, outs, log, hist>>

EnterOptimized(callN, sName, xName, yName) ==
  /\ arg' = [kernel |-> "optimized", n |-> callN, s |-> sName,
             vx |-> xName, vy |-> yName]
  /\ pc' = "q_quad"
  /\ sumf' = FZero(0)
  /\ ib' = 0
  /\ sumv0' = ZeroV
  /\ sumv1' = ZeroV
  /\ sumv2' = ZeroV
  /\ sumv3' = ZeroV
  /\ UNCHANGED <<sv0, sv1>>
  /\ writes' = 0
  /\ terms' = <<>>
  /\ hints' = <<>>
  /\ entry' = [x |-> Deref(xName), y |-> Deref(yName), outs |-> outs]
  /\ UNCHANGED <<mem, outs, log, hist>>

\* *s = sumf; and the return to the caller
Store ==
  /\ result_orig' = IF arg.s = "result_orig" THEN sumf ELSE result_orig
  /\ result_opt' = IF arg.s = "result_opt" THEN sumf ELSE result_opt
  /\ sr' = IF arg.s = "sr" THEN sumf ELSE sr
  /\ pc' = "idle"
  /\ writes' = writes + 1
  /\ hist' = IF log
             THEN Append(hist, [kernel |-> arg.kernel, n |-> arg.n,
                                x |-> entry.x, y |-> entry.y, s |-> sumf,
                                terms |-> terms, hints |-> hints, ib |-> ib,
                                writes |-> writes + 1,
                                dst |-> arg.s, outs_before |-> entry.outs,
                                outs_after |-> <<result_orig', result_opt', sr'>>,
                                x_after |-> Deref(arg.vx), y_after |-> Deref(arg.vy)])
             ELSE hist
  /\ UNCHANGED <<mem, mainvars, arg, locals, log, terms, hints, entry>>

\* original: for (; ib + 1 < nb; ib += 2)
OrigPairIter ==
  /\ pc = "o_pair"
  /\ OrigPairCond
  /\ LET ts == OrigPairTerms(ib) IN
       /\ sumv0' = Accumulate(sumv0, ts[1])
       /\ sumv1' = Accumulate(sumv1, ts[2])
       /\ terms' = Log(ts)
  /\ ib' = ib + 2
  /\ UNCHANGED <<mem, outs, mainvars, pc, arg, sumf, sumv2, sumv3, sv0, sv1,
                 log, hints, writes, entry, hist>>

\* original: sumf = vaddvq_f32(sumv0) + vaddvq_f32(sumv1)
OrigReduce ==
  /\ pc = "o_pair"
  /\ ~OrigPairCond
  /\ sumf' = FAdd(vaddvq_f32(sumv0), vaddvq_f32(sumv1))
  /\ pc' = "o_single"
  /\ UNCHANGED <<mem, outs, mainvars, arg, ib, sumv0, sumv1, sumv2, sumv3,
                 sv0, sv1, history>>

\* original: for (; ib < nb; ++ib)
OrigSingleIter ==
  /\ pc = "o_single"
  /\ SingleCond
  /\ LET t == SingleTerm(ib) IN
       /\ sumf' = FAdd(sumf, t.sc)
       /\ terms' = Log(<<t>>)
  /\ ib' = ib + 1
  /\ UNCHANGED <<mem, outs, mainvars, pc, arg, sumv0, sumv1, sumv2, sumv3,
                 sv0, sv1, log, hints, writes, entry, hist>>

OrigStore ==
  /\ pc = "o_single"
  /\ ~SingleCond
  /\ Store

\* optimized: for (; ib + 3 < nb; ib += 4), four PROCESS_BLOCKs
OptQuadIter ==
  /\ pc = "q_quad"
  /\ OptQuadCond
  /\ LET t0 == ProcessBlockTerm(ib, 0)
         t1 == ProcessBlockTerm(ib, 1)
         t2 == ProcessBlockTerm(ib, 2)
         t3 == ProcessBlockTerm(ib, 3)
     IN /\ sumv0' = Accumulate(sumv0, t0)
        /\ sumv1' = Accumulate(sumv1, t1)
        /\ sumv2' = Accumulate(sumv2, t2)
        /\ sumv3' = Accumulate(sumv3, t3)
        /\ terms' = Log(<<t0, t1, t2, t3>>)
  /\ hints' = Hint(Prefetch(ib))
  /\ ib' = ib + 4
  /\ UNCHANGED <<mem, outs, mainvars, pc, arg, sumf, sv0, sv1,
                 log, writes, entry, hist>>

\* (mutant) the reduction leaving out the fourth accumulator
OptReduceThree ==
  /\ pc = "q_quad"
  /\ ~OptQuadCond
  /\ LET r == vaddq_f32(vaddq_f32(sumv0, sumv1), sumv2) IN
       /\ sumv0' = r
       /\ sumf' = vaddvq_f32(r)
  /\ sv0' = ZeroV
  /\ sv1' = ZeroV
  /\ pc' = "q_pair"
  /\ UNCHANGED <<mem, outs, mainvars, arg, ib, sumv1, sumv2, sumv3, history>>

\* optimized: reduce the 4 accumulators; sv0 = sv1 = 0
OptReduce ==
  /\ pc = "q_quad"
  /\ ~OptQuadCond
  /\ LET r == vaddq_f32(vaddq_f32(sumv0, sumv1), vaddq_f32(sumv2, sumv3)) IN
       /\ sumv0' = r
       /\ sumf' = vaddvq_f32(r)
  /\ sv0' = ZeroV
  /\ sv1' = ZeroV
  /\ pc' = "q_pair"
  /\ UNCHANGED <<mem, outs, mainvars, arg, ib, sumv1, sumv2, sumv3, history>>

\* optimized: for (; ib + 1 < nb; ib += 2)
OptPairIter ==
  /\ pc = "q_pair"
  /\ OptPairCond
  /\ LET ts == OptPairTerms(ib) IN
       /\ sv0' = Accumulate(sv0, ts[1])
       /\ sv1' = Accumulate(sv1, ts[2])
       /\ terms' = Log(ts)
  /\ ib' = ib + 2
  /\ UNCHANGED <<mem, outs, mainvars, pc, arg, sumf, sumv0, sumv1, sumv2, sumv3,
                 log, hints, writes, entry, hist>>

\* optimized: sumf += vaddvq_f32(sv0) + vaddvq_f32(sv1)
OptPairSum ==
  /\ pc = "q_pair"
  /\ ~OptPairCond
  /\ sumf' = FAdd(sumf, FAdd(vaddvq_f32(sv0), vaddvq_f32(sv1)))
  /\ pc' = "q_single"
  /\ UNCHANGED <<mem, outs, mainvars, arg, ib, sumv0, sumv1, sumv2, sumv3,
                 sv0, sv1, history>>

\* optimized: for (; ib < nb; ++ib)
OptSingleIter ==
  /\ pc = "q_single"
  /\ SingleCond
  /\ LET t == SingleTerm(ib) IN
       /\ sumf' = FAdd(sumf, t.sc)
       /\ terms' = Log(<<t>>)
  /\ ib' = ib + 1
  /\ UNCHANGED <<mem, outs, mainvars, pc, arg, sumv0, sumv1, sumv2, sumv3,
                 sv0, sv1, log, hints, writes, entry, hist>>

OptStore ==
  /\ pc = "q_single"
  /\ ~SingleCond
  /\ Store

KernelStep ==
  \/ OrigPairIter \/ OrigReduce \/ OrigSingleIter \/ OrigStore
  \/ OptQuadIter \/ OptReduce \/ OptPairIter \/ OptPairSum
  \/ OptSingleIter \/ OptStore

\* ------------------------------------------------------------ a caller

MaxNb == 7
MaxCalls == 2

\* The contents the caller fills its buffers with: block i of a family.
WeightFamilies == {"gen", "zero", "swing"}
ActFamilies == {"gen", "zero", "max"}
ScaleFamilies == {"gen", "wide", "inf"}

\* Block scales as the caller stores them: 1.0, 0.01, 10.0, 0.5, +infinity
H_1 == fp32_to_fp16(IntToFloat(1))
H_0_01 == fp32_to_fp16(FDiv(IntToFloat(1), IntToFloat(100)))
H_10 == fp32_to_fp16(IntToFloat(10))
H_0_5 == fp32_to_fp16(FDiv(IntToFloat(1), IntToFloat(2)))
H_Inf == fp32_to_fp16(FInf(0))

WeightBytes(wf, k) ==
  CASE wf = "gen" -> generate_q4_0_blocks(k).qs
    [] wf = "zero" -> [j \in 1..16 |-> 136]
    [] wf = "swing" -> [j \in 1..16 |-> <<255, 152, 17, 136>>[(k % 4) + 1]]

ActBytes(af, k) ==
  CASE af = "gen" -> generate_q8_0_blocks(k).qs
    [] af = "zero" -> [j \in 1..32 |-> 0]
    [] af = "max" -> [j \in 1..32 |-> 127]

WeightScale(sf, k) ==
  CASE sf = "gen" -> generate_q4_0_blocks(k).d
    [] sf = "wide" -> <<H_1, H_0_01, H_1, H_10>>[(k % 4) + 1]
    [] sf = "inf" -> IF k = 0 THEN H_Inf ELSE H_1

ActScale(sf, k) ==
  CASE sf = "gen" -> generate_q8_0_blocks(k).d
    [] sf = "wide" -> <<H_1, H_0_01, H_1, H_0_5>>[(k % 4) + 1]
    [] sf = "inf" -> H_1

WeightBuffer(wf, sf, k) ==
  [fill |-> "blocks",
   blocks |-> [b \in 1..k |-> [d |-> WeightScale(sf, b - 1), qs |-> WeightBytes(wf, b - 1)]]]

ActBuffer(af, sf, k) ==
  [fill |-> "blocks",
   blocks |-> [b \in 1..k |-> [d |-> ActScale(sf, b - 1), qs |-> ActBytes(af, b - 1)]]]

EmptyBuffer == [fill |-> "blocks", blocks |-> <<>>]

\* No kernel has run yet.
InitKernel ==
  /\ pc = "idle"
  /\ arg = [kernel |-> "none", n |-> 0, s |-> "sr", vx |-> "x", vy |-> "y"]
  /\ ib = 0
  /\ sumf = FZero(0)
  /\ sumv0 = ZeroV /\ sumv1 = ZeroV /\ sumv2 = ZeroV /\ sumv3 = ZeroV
  /\ sv0 = ZeroV /\ sv1 = ZeroV
  /\ terms = <<>>
  /\ hints = <<>>
  /\ writes = 0
  /\ entry = [x |-> EmptyBuffer, y |-> EmptyBuffer, outs |-> outs]
  /\ hist = <<>>

\* A caller that has filled x and y and is about to call the kernels.
InitCaller ==
  /\ sx = EmptyBuffer /\ sy = EmptyBuffer
  /\ result_orig = FZero(0) /\ result_opt = FZero(0) /\ sr = FZero(0)
  /\ mpc = "caller" /\ i = 0 /\ si = 0 /\ rel_err = FZero(0)
  /\ status = "" /\ ret = "running"
  /\ log = TRUE
  /\ InitKernel

Init ==
  /\ \E k \in 0..MaxNb, wf \in WeightFamilies, af \in ActFamilies, sf \in ScaleFamilies :
       /\ n = QK4_0 * k
       /\ x = WeightBuffer(wf, sf, k)
       /\ y = ActBuffer(af, sf, k)
  /\ InitCaller

\* vec_dot_q4_0_q8_0_original(n, &result_orig, x, y)
CallOriginal ==
  /\ mpc = "caller"
  /\ pc = "idle"
  /\ Len(hist) < MaxCalls
  /\ EnterOriginal(n, "result_orig", "x", "y")
  /\ UNCHANGED mainvars

\* vec_dot_q4_0_q8_0_optimized(n, &result_opt, x, y)
CallOptimized ==
  /\ mpc = "caller"
  /\ pc = "idle"
  /\ Len(hist) < MaxCalls
  /\ EnterOptimized(n, "result_opt", "x", "y")
  /\ UNCHANGED mainvars

Next == CallOriginal \/ CallOptimized \/ KernelStep

Spec == Init /\ [][Next]_vars

\* ------------------------------------------------------------ one scale changed

\* A caller that, between two calls, stores a new scale in one block of one
\* of its buffers and leaves all element data as it is.
MaxScaleNb == 7
NewScales == {H_0_5, H_10}

InitScale ==
  /\ \E k \in 1..MaxScaleNb, af \in {"gen", "max"}, sf \in {"gen", "wide"} :
       /\ n = QK4_0 * k
       /\ x = WeightBuffer("gen", sf, k)
       /\ y = ActBuffer(af, sf, k)
  /\ InitCaller

\* x[b].d = d or y[b].d = d
SetScale ==
  /\ mpc = "caller"
  /\ pc = "idle"
  /\ Len(hist) = 1
  /\ hist[1].x = x /\ hist[1].y = y
  /\ \E b \in 1..(n \div QK4_0), d \in NewScales :
       \/ /\ x' = [x EXCEPT !.blocks[b].d = d]
          /\ y' = y
       \/ /\ y' = [y EXCEPT !.blocks[b].d = d]
          /\ x' = x
  /\ UNCHANGED <<sx, sy, outs, mainvars, pc, arg, locals, history>>

NextScale == CallOriginal \/ CallOptimized \/ KernelStep \/ SetScale

SpecScale == InitScale /\ [][NextScale]_vars

\* ------------------------------------------------------------ the check

\* The largest binary32 below the double 1e-5 (0x3727C5AC): a float is
\* < 1e-5 as a double exactly when it is <= this value.
F_1e_5 == [c |-> "fin", s |-> 0, m |-> 10995116, e |-> -40]

\* float diff = fabsf(result_orig - result_opt);
\* float rel_err = diff / (fabsf(result_orig) + 1e-10f);
RelErr(orig, opt) ==
  FDiv(fabsf(FSub(orig, opt)), FAdd(fabsf(orig), F_1e_10))

\* rel_err < 1e-5
BelowTolerance(r) == FLt(r, F_1e_5) \/ FEq(r, F_1e_5)

\* ------------------------------------------------------------ block contents

\* Buffers for the element data of a block: the packed bytes run through all
\* 256 values (37 is odd, three seeds of 112 bytes each), the activations are
\* zero but for one element, or the generator's.
MaxSeed == 2
BlockNb == 7
RampBytes(seed, k) ==
  [j \in 1..(QK4_0 \div 2) |-> (37 * (16 * BlockNb * seed + 16 * k + (j - 1))) % 256]
OneHot(t, q) == [j \in 1..QK8_0 |-> IF j - 1 = t THEN q ELSE 0]
ActChoices ==
  {<<"onehot", t, q>> : t \in 0..(QK8_0 - 1), q \in {-128, 127}} \cup {<<"gen", 0, 0>>}
ChosenAct(c, k) ==
  IF c[1] = "onehot" THEN OneHot(c[2], c[3]) ELSE generate_q8_0_blocks(k).qs

InitBlock ==
  /\ \E seed \in 0..MaxSeed, c \in ActChoices :
       /\ n = QK4_0 * BlockNb
       /\ x = [fill |-> "blocks",
               blocks |-> [b \in 1..BlockNb |-> [d |-> H_1, qs |-> RampBytes(seed, b - 1)]]]
       /\ y = [fill |-> "blocks",
               blocks |-> [b \in 1..BlockNb |-> [d |-> H_0_5, qs |-> ChosenAct(c, b - 1)]]]
  /\ InitCaller

SpecBlock == InitBlock /\ [][Next]_vars

\* ------------------------------------------------------------ benchmark main

DefaultN == 4096
warmup == 1000
iterations == 100000
SweepWarmup == 1000
sit == 50000
sizes == <<128, 256, 512, 1024, 2048, 4096, 8192, 16384, 32768, 65536, 131072, 0>>

\* Each timing or warm-up loop is followed for at most MaxIter iterations,
\* the size sweep for its first MaxSweep sizes.
MaxIter == 1
MaxSweep == 2

\* The command lines: no argument, or one number.
Args == {<<>>, <<5>>, <<100>>, <<59424>>}

\* int n = 4096; if (argc > 1) n = atoi(argv[1]); if (n < 32) n = 32;
\* n = (n / 32) * 32;
ParseN(argv) ==
  LET n0 == IF Len(argv) > 0 THEN argv[1] ELSE DefaultN
      n1 == IF n0 < 32 THEN 32 ELSE n0
  IN (n1 \div 32) * 32

\* generate_q4_0_blocks(x, nb) / generate_q8_0_blocks(y, nb)
Generated == [fill |-> "generate"]

\* main up to the first warm-up call
InitMain ==
  /\ \E argv \in Args : n = ParseN(argv)
  /\ x = Generated /\ y = Generated
  /\ sx = EmptyBuffer /\ sy = EmptyBuffer
  /\ result_orig = FZero(0) /\ result_opt = FZero(0) /\ sr = FZero(0)
  /\ mpc = "warmup" /\ i = 0 /\ si = 0 /\ rel_err = FZero(0)
  /\ status = "" /\ ret = "running"
  /\ log = FALSE
  /\ InitKernel

\* main calls a kernel: the call, where main goes on after it, the counter
CallFromMain(kernel, callN, sName, xName, yName, next, count) ==
  /\ pc = "idle"
  /\ IF kernel = "original"
     THEN EnterOriginal(callN, sName, xName, yName)
     ELSE EnterOptimized(callN, sName, xName, yName)
  /\ mpc' = next
  /\ i' = count
  /\ UNCHANGED <<n, si, rel_err, status, ret>>

\* main moves on without a call
StepMain(next) ==
  /\ pc = "idle"
  /\ mpc' = next
  /\ i' = 0
  /\ UNCHANGED <<mem, outs, n, si, rel_err, status, ret, pc, arg, locals, history>>

LoopCond(limit) == i < limit /\ i < MaxIter
\* sizes[si] != 0
SweepCond == sizes[si + 1] # 0 /\ si < MaxSweep

\* for (int i = 0; i < warmup; i++) { original(...); optimized(...); }
MainWarmupOrig ==
  /\ mpc = "warmup" /\ LoopCond(warmup)
  /\ CallFromMain("original", n, "result_orig", "x", "y", "warmup_opt", i)
MainWarmupOpt ==
  /\ mpc = "warmup_opt"
  /\ CallFromMain("optimized", n, "result_opt", "x", "y", "warmup", i + 1)
MainWarmupDone ==
  /\ mpc = "warmup" /\ ~LoopCond(warmup)
  /\ StepMain("verify")

\* Verify correctness: one call of each kernel
MainVerifyOrig ==
  /\ mpc = "verify"
  /\ CallFromMain("original", n, "result_orig", "x", "y", "verify_opt", i)
MainVerifyOpt ==
  /\ mpc = "verify_opt"
  /\ CallFromMain("optimized", n, "result_opt", "x", "y", "check", i)

\* diff, rel_err and the printed Status line; main goes on to the timing
MainCheck ==
  /\ mpc = "check"
  /\ pc = "idle"
  /\ rel_err' = RelErr(result_orig, result_opt)
  /\ status' = IF BelowTolerance(rel_err') THEN "PASS" ELSE "FAIL"
  /\ mpc' = "bench_orig"
  /\ i' = 0
  /\ UNCHANGED <<mem, outs, n, si, ret, pc, arg, locals, history>>

\* Benchmark original
MainBenchOrig ==
  /\ mpc = "bench_orig" /\ LoopCond(iterations)
  /\ CallFromMain("original", n, "result_orig", "x", "y", "bench_orig", i + 1)
MainBenchOrigDone ==
  /\ mpc = "bench_orig" /\ ~LoopCond(iterations)
  /\ StepMain("bench_opt")

\* Benchmark optimized
MainBenchOpt ==
  /\ mpc = "bench_opt" /\ LoopCond(iterations)
  /\ CallFromMain("optimized", n, "result_opt", "x", "y", "bench_opt", i + 1)
MainBenchOptDone ==
  /\ mpc = "bench_opt" /\ ~LoopCond(iterations)
  /\ StepMain("results")

\* Results: the speedup, the improvement and the throughput are printed
MainResults ==
  /\ mpc = "results"
  /\ pc = "idle"
  /\ mpc' = "sweep"
  /\ si' = 0
  /\ i' = 0
  /\ UNCHANGED <<mem, outs, n, rel_err, status, ret, pc, arg, locals, history>>

\* for (int si = 0; sizes[si] != 0; si++): allocate and fill sx, sy
SweepAlloc ==
  /\ mpc = "sweep"
  /\ pc = "idle"
  /\ SweepCond
  /\ sx' = Generated
  /\ sy' = Generated
  /\ mpc' = "s_warmup"
  /\ i' = 0
  /\ UNCHANGED <<x, y, outs, n, si, rel_err, status, ret, pc, arg, locals, history>>

SweepWarmupOrig ==
  /\ mpc = "s_warmup" /\ LoopCond(SweepWarmup)
  /\ CallFromMain("original", sizes[si + 1], "sr", "sx", "sy", "s_warmup_opt", i)
SweepWarmupOpt ==
  /\ mpc = "s_warmup_opt"
  /\ CallFromMain("optimized", sizes[si + 1], "sr", "sx", "sy", "s_warmup", i + 1)
SweepWarmupDone ==
  /\ mpc = "s_warmup" /\ ~LoopCond(SweepWarmup)
  /\ StepMain("s_orig")

SweepOrig ==
  /\ mpc = "s_orig" /\ LoopCond(sit)
  /\ CallFromMain("original", sizes[si + 1], "sr", "sx", "sy", "s_orig", i + 1)
SweepOrigDone ==
  /\ mpc = "s_orig" /\ ~LoopCond(sit)
  /\ StepMain("s_opt")

SweepOpt ==
  /\ mpc = "s_opt" /\ LoopCond(sit)
  /\ CallFromMain("optimized", sizes[si + 1], "sr", "sx", "sy", "s_opt", i + 1)

\* the sweep's line is printed; free(sx); free(sy); si++
SweepOptDone ==
  /\ mpc = "s_opt" /\ ~LoopCond(sit)
  /\ pc = "idle"
  /\ sx' = EmptyBuffer
  /\ sy' = EmptyBuffer
  /\ si' = si + 1
  /\ mpc' = "sweep"
  /\ i' = 0
  /\ UNCHANGED <<x, y, outs, n, rel_err, status, ret, pc, arg, locals, history>>

\* free(x); free(y); return 0;
MainReturn ==
  /\ mpc = "sweep"
  /\ pc = "idle"
  /\ ~SweepCond
  /\ x' = EmptyBuffer
  /\ y' = EmptyBuffer
  /\ ret' = "0"
  /\ mpc' = "exit"
  /\ UNCHANGED <<sx, sy, outs, n, i, si, rel_err, status, pc, arg, locals, history>>

NextMain ==
  \/ MainWarmupOrig \/ MainWarmupOpt \/ MainWarmupDone
  \/ MainVerifyOrig \/ MainVerifyOpt \/ MainCheck
  \/ MainBenchOrig \/ MainBenchOrigDone \/ MainBenchOpt \/ MainBenchOptDone
  \/ MainResults
  \/ SweepAlloc \/ SweepWarmupOrig \/ SweepWarmupOpt \/ SweepWarmupDone
  \/ SweepOrig \/ SweepOrigDone \/ SweepOpt \/ SweepOptDone
  \/ MainReturn
  \/ KernelStep

SpecMain == InitMain /\ [][NextMain]_vars

\* ------------------------------------------------------------ without the prefetches

\* The optimized kernel with the three __builtin_prefetch statements of its
\* 4-wide loop taken out, and a caller that runs the kernels on buffers of
\* floor(n / 32) blocks for n that need not be a multiple of 32.
MaxHintNb == 12
Remainders == {0, 1, QK4_0 - 1}

EnterNoPrefetch(callN, sName, xName, yName) ==
  /\ arg' = [kernel |-> "optimized_noprefetch", n |-> callN, s |-> sName,
             vx |-> xName, vy |-> yName]
  /\ pc' = "p_quad"
  /\ sumf' = FZero(0)
  /\ ib' = 0
  /\ sumv0' = ZeroV
  /\ sumv1' = ZeroV
  /\ sumv2' = ZeroV
  /\ sumv3' = ZeroV
  /\ UNCHANGED <<sv0, sv1>>
  /\ writes' = 0
  /\ terms' = <<>>
  /\ hints' = <<>>
  /\ entry' = [x |-> Deref(xName), y |-> Deref(yName), outs |-> outs]
  /\ UNCHANGED <<mem, outs, log, hist>>

\* for (; ib + 3 < nb; ib += 4) with the four PROCESS_BLOCKs only
NoPrefetchQuadIter ==
  /\ pc = "p_quad"
  /\ OptQuadCond
  /\ LET t0 == ProcessBlockTerm(ib, 0)
         t1 == ProcessBlockTerm(ib, 1)
         t2 == ProcessBlockTerm(ib, 2)
         t3 == ProcessBlockTerm(ib, 3)
     IN /\ sumv0' = Accumulate(sumv0, t0)
        /\ sumv1' = Accumulate(sumv1, t1)
        /\ sumv2' = Accumulate(sumv2, t2)
        /\ sumv3' = Accumulate(sumv3, t3)
        /\ terms' = Log(<<t0, t1, t2, t3>>)
  /\ ib' = ib + 4
  /\ UNCHANGED <<mem, outs, mainvars, pc, arg, sumf, sv0, sv1,
                 log, hints, writes, entry, hist>>

\* the loop is left; the rest of the function is the optimized kernel's
NoPrefetchQuadDone ==
  /\ pc = "p_quad"
  /\ ~OptQuadCond
  /\ pc' = "q_quad"
  /\ UNCHANGED <<mem, outs, mainvars, arg, locals, history>>

CallNoPrefetch ==
  /\ mpc = "caller"
  /\ pc = "idle"
  /\ Len(hist) < MaxCalls
  /\ EnterNoPrefetch(n, "result_opt", "x", "y")
  /\ UNCHANGED mainvars

InitPrefetch ==
  /\ \E k \in 0..MaxHintNb, r \in Remainders, sf \in {"gen", "wide"} :
       /\ n = QK4_0 * k + r
       /\ x = WeightBuffer("gen", sf, k)
       /\ y = ActBuffer("gen", sf, k)
  /\ InitCaller

NextPrefetch ==
  \/ CallOriginal \/ CallOptimized \/ CallNoPrefetch
  \/ KernelStep \/ NoPrefetchQuadIter \/ NoPrefetchQuadDone

SpecPrefetch == InitPrefetch /\ [][NextPrefetch]_vars

\* ------------------------------------------------------------ extreme elements

\* Buffers whose elements sit at the ends of their ranges: every packed byte
\* 0x00, 0xFF, 0x0F or 0xF0 (nibbles 0 and 15), or the ramp; every activation
\* -128 or 127, the two alternating from block to block, or the generator's.
WeightFills == {0, 255, 15, 240}
ActFills == {-128, 127}

WeightChoices == {<<"fill", v>> : v \in WeightFills} \cup {<<"ramp", 0>>}
ExtremeActChoices == {<<"fill", v>> : v \in ActFills} \cup {<<"swing", 0>>, <<"gen", 0>>}

ExtremeWeights(w, k) ==
  IF w[1] = "ramp" THEN RampBytes(0, k) ELSE [j \in 1..(QK4_0 \div 2) |-> w[2]]
ExtremeActs(a, k) ==
  CASE a[1] = "gen" -> generate_q8_0_blocks(k).qs
    [] a[1] = "swing" -> [j \in 1..QK8_0 |-> IF k % 2 = 0 THEN -128 ELSE 127]
    [] a[1] = "fill" -> [j \in 1..QK8_0 |-> a[2]]

InitExtreme ==
  /\ \E w \in WeightChoices, a \in ExtremeActChoices :
       /\ n = QK4_0 * BlockNb
       /\ x = [fill |-> "blocks",
               blocks |-> [b \in 1..BlockNb |-> [d |-> H_1, qs |-> ExtremeWeights(w, b - 1)]]]
       /\ y = [fill |-> "blocks",
               blocks |-> [b \in 1..BlockNb |-> [d |-> H_0_5, qs |-> ExtremeActs(a, b - 1)]]]
  /\ InitCaller

SpecExtreme == InitExtreme /\ [][Next]_vars

\* ------------------------------------------------------------ claims

\* The sum of the integers q[lo + 1] .. q[hi], by halves
RECURSIVE SumRange(_, _, _)
SumRange(q, lo, hi) ==
  IF hi <= lo THEN 0
  ELSE IF hi = lo + 1 THEN q[hi]
  ELSE SumRange(q, lo, (lo + hi) \div 2) + SumRange(q, (lo + hi) \div 2, hi)
SeqSum(q) == SumRange(q, 0, Len(q))

Paths(ts) == {ts[k].path : k \in 1..Len(ts)}
CountPath(ts, path) == Cardinality({k \in 1..Len(ts) : ts[k].path = path})
ValidN(v) == v >= QK4_0 /\ v % QK4_0 = 0

\* C2: every term added to a running total, in every loop of both kernels,
\* is built from one block index: the packed data, the activation elements
\* and both scales come from the same block.
C2_OneBlockPerTerm ==
  \A k \in 1..Len(terms) :
    /\ terms[k].yq = terms[k].xq
    /\ terms[k].xd = terms[k].xq
    /\ terms[k].yd = terms[k].xq

\* the optimized kernel has gone through its 4-wide, 2-wide and single loop
C2_Witness ==
  /\ arg.kernel = "optimized"
  /\ Paths(terms) = {"quad", "opt_pair", "scalar"}

\* C5: for nb >= 1 every block index contributes exactly once; the 4-wide
\* loop takes the indices below 4 * (nb / 4), the 2-wide loop runs at most
\* once, the single-block loop at most once; the original's pair loop takes
\* the indices below 2 * (nb / 2); both leave the loops with ib = nb.
C5_EachBlockOnce ==
  \A c \in 1..Len(hist) :
    LET h == hist[c]
        k == h.n \div QK4_0
    IN ValidN(h.n) =>
         /\ h.ib = k
         /\ Len(h.terms) = k
         /\ \A j \in 1..k : h.terms[j].xq = j - 1
         /\ CountPath(h.terms, "scalar") <= 1
         /\ h.kernel = "optimized" =>
              /\ \A j \in 1..k : (h.terms[j].path = "quad") <=> (j - 1 < 4 * (k \div 4))
              /\ CountPath(h.terms, "opt_pair") <= 2
         /\ h.kernel = "original" =>
              \A j \in 1..k : (h.terms[j].path = "orig_pair") <=> (j - 1 < 2 * (k \div 2))

\* a finished optimized call over 4 + 2 + 1 blocks and a finished original one
C5_Witness ==
  /\ Len(hist) = 2
  /\ hist[1].kernel = "optimized" /\ Paths(hist[1].terms) = {"quad", "opt_pair", "scalar"}
  /\ hist[2].kernel = "original" /\ Paths(hist[2].terms) = {"orig_pair", "scalar"}

\* C9: a call leaves both buffers as they were, writes nothing before its
\* last step, writes only *s and only once, and its result depends only on
\* n and the buffers: equal arguments give the same kernel the same result.
C9_PureCall ==
  /\ pc # "idle" =>
       /\ Deref(arg.vx) = entry.x
       /\ Deref(arg.vy) = entry.y
       /\ outs = entry.outs
       /\ writes = 0
  /\ \A c \in 1..Len(hist) :
       LET h == hist[c] IN
         /\ h.writes = 1
         /\ h.x_after = h.x
         /\ h.y_after = h.y
         /\ h.outs_after[1] = (IF h.dst = "result_orig" THEN h.s ELSE h.outs_before[1])
         /\ h.outs_after[2] = (IF h.dst = "result_opt" THEN h.s ELSE h.outs_before[2])
         /\ h.outs_after[3] = (IF h.dst = "sr" THEN h.s ELSE h.outs_before[3])
  /\ \A c, d \in 1..Len(hist) :
       (/\ hist[c].kernel = hist[d].kernel
        /\ hist[c].n = hist[d].n
        /\ hist[c].x = hist[d].x
        /\ hist[c].y = hist[d].y) => hist[c].s = hist[d].s

\* the same kernel has run twice on the same non-trivial input
C9_Witness ==
  /\ Len(hist) = 2
  /\ hist[1].kernel = "original" /\ hist[2].kernel = "original"
  /\ hist[1].n = hist[2].n /\ hist[1].x = hist[2].x /\ hist[1].y = hist[2].y
  /\ Len(hist[1].terms) >= 3
  /\ ~IsZero(hist[2].s)

\* The block partial sum as the format defines it: byte j holds element j in
\* its low four bits and element j + 16 in its high four bits, each offset by 8.
RefBlockSum(xb, yb) ==
  SeqSum([j \in 1..16 |-> ((xb.qs[j] % 16) - 8) * yb.qs[j]
                          + ((xb.qs[j] \div 16) - 8) * yb.qs[j + 16]])

\* C3: in every code path of both kernels the integer partial sum of a block
\* is the sum over j of (lo_j - 8) * q_j + (hi_j - 8) * q_(j+16): the low
\* nibble of byte j meets activation j, the high nibble activation j + 16.
C3_NibblePairing ==
  \A k \in 1..Len(terms) :
    SeqSum(terms[k].p) = RefBlockSum(XBlock(Deref(arg.vx), terms[k].xq),
                                     YBlock(Deref(arg.vy), terms[k].yq))

\* the optimized kernel has been through its three loops with one activation
\* of the upper half set, and every block's partial sum is non-zero
C3_Witness ==
  /\ arg.kernel = "optimized"
  /\ Paths(terms) = {"quad", "opt_pair", "scalar"}
  /\ YBlock(Deref(arg.vy), 0).qs[21] = 127
  /\ \A k \in 1..Len(terms) : SeqSum(terms[k].p) # 0

\* C8: for every packed byte a kernel decodes, both decoded values lie in
\* -8..7, adding 8 and repacking (low | high << 4) gives the byte back, and
\* the vector decode gives the same pair as the scalar decode.
C8_DecodeInvertible ==
  \A k \in 1..Len(terms) :
    LET qs == XBlock(Deref(arg.vx), terms[k].xq).qs
        vn == VectorNibbles(vld1q_u8(qs, 0))
    IN \A j \in 1..(QK4_0 \div 2) :
         LET v == ScalarNibbles(qs[j]) IN
           /\ v[1] \in -8..7
           /\ v[2] \in -8..7
           /\ BitOr(v[1] + 8, ShiftLeft(v[2] + 8, 4)) = qs[j]
           /\ vn.ls[j] = v[1]
           /\ vn.hs[j] = v[2]

\* a decoded block holds the byte 0xFF, another the byte 0x00
C8_Witness ==
  /\ \E k \in 1..Len(terms) : \E j \in 1..16 : XBlock(Deref(arg.vx), terms[k].xq).qs[j] = 255
  /\ \E k \in 1..Len(terms) : \E j \in 1..16 : XBlock(Deref(arg.vx), terms[k].xq).qs[j] = 0

\* The inputs of a finished call h, block by block.
AllWeightsZero(h) ==
  \A b \in 0..((h.n \div QK4_0) - 1) : \A j \in 1..(QK4_0 \div 2) : XBlock(h.x, b).qs[j] = 136
AllActsZero(h) ==
  \A b \in 0..((h.n \div QK8_0) - 1) : \A j \in 1..QK8_0 : YBlock(h.y, b).qs[j] = 0
FiniteScales(h) ==
  \A b \in 0..((h.n \div QK4_0) - 1) :
    /\ IsFinite(fp16_to_fp32(XBlock(h.x, b).d))
    /\ IsFinite(fp16_to_fp32(YBlock(h.y, b).d))

\* C6 (as stated): for every valid n and both kernels, if every weight byte
\* is 0x88 or every activation byte is zero, the result is 0.0 whatever the
\* block scales are.
C6_ZeroAnyScale ==
  \A c \in 1..Len(hist) :
    (ValidN(hist[c].n) /\ (AllWeightsZero(hist[c]) \/ AllActsZero(hist[c])))
      => IsZero(hist[c].s)

\* C6 (amended): for every valid n and both kernels, if every weight byte is
\* 0x88 or every activation byte is zero, and every block scale is finite,
\* the result is 0.0.
C6_ZeroFiniteScales ==
  \A c \in 1..Len(hist) :
    (/\ ValidN(hist[c].n)
     /\ AllWeightsZero(hist[c]) \/ AllActsZero(hist[c])
     /\ FiniteScales(hist[c])) => IsZero(hist[c].s)

\* both kernels have finished on 7 blocks of zero weights, non-zero
\* activations and finite scales that differ from block to block
C6_Witness ==
  /\ Len(hist) = 2
  /\ hist[1].kernel # hist[2].kernel
  /\ hist[1].n = 7 * QK4_0
  /\ AllWeightsZero(hist[1]) /\ ~AllActsZero(hist[1]) /\ FiniteScales(hist[1])
  /\ XBlock(hist[1].x, 0).d # XBlock(hist[1].x, 1).d

\* Every block scale of the call's inputs lies in 0.01 .. 10.
RealisticScales(h) ==
  \A b \in 0..((h.n \div QK4_0) - 1) :
    LET dx == fp16_to_fp32(XBlock(h.x, b).d)
        dy == fp16_to_fp32(YBlock(h.y, b).d)
    IN /\ ~FLt(dx, fp16_to_fp32(H_0_01)) /\ ~FLt(fp16_to_fp32(H_10), dx)
       /\ ~FLt(dy, fp16_to_fp32(H_0_01)) /\ ~FLt(fp16_to_fp32(H_10), dy)

\* C1: for every valid n and all block contents with scales in 0.01 .. 10,
\* the results of the original and of the optimized kernel on the same inputs
\* agree with relative error below 1e-5.
C1_KernelsAgree ==
  \A a, b \in 1..Len(hist) :
    (/\ hist[a].kernel = "original" /\ hist[b].kernel = "optimized"
     /\ hist[a].n = hist[b].n /\ hist[a].x = hist[b].x /\ hist[a].y = hist[b].y
     /\ ValidN(hist[a].n)
     /\ RealisticScales(hist[a]))
      => BelowTolerance(RelErr(hist[a].s, hist[b].s))

\* Exact arithmetic for the reference values: a natural number is a
\* sequence of base-2^15 digits, lowest first (leading zeros allowed).
Base == Pow2(15)
Digit(a, k) == IF k <= Len(a) THEN a[k] ELSE 0

\* an integer 0 <= v < 2^31
NatFromInt(v) == <<v % Base, (v \div Base) % Base, v \div (Base * Base)>>

\* the carry into digit k of a sum with the digit sums t: some lower digit
\* sum overflows and all between it and k pass the carry on
CarryIn(t, k) ==
  \E j \in 1..(k - 1) :
    /\ t[j] >= Base
    /\ \A l \in (j + 1)..(k - 1) : t[l] = Base - 1
NatAdd(a, b) ==
  LET len == IF Len(a) > Len(b) THEN Len(a) ELSE Len(b)
      t == <<>> \o [k \in 1..(len + 1) |-> Digit(a, k) + Digit(b, k)]
  IN <<>> \o [k \in 1..(len + 1) |-> (t[k] + (IF CarryIn(t, k) THEN 1 ELSE 0)) % Base]

\* the sum of at most 2^15 naturals: the digit columns are summed, then
\* their low and high parts are added
NatSum(q) ==
  LET t == <<>> \o q
      len == IF t = <<>> THEN 0
             ELSE Len(t[CHOOSE idx \in 1..Len(t) : \A j \in 1..Len(t) : Len(t[j]) <= Len(t[idx])])
      col == <<>> \o [k \in 1..len |-> SeqSum([idx \in 1..Len(t) |-> Digit(t[idx], k)])]
  IN NatAdd(<<>> \o [k \in 1..len |-> col[k] % Base],
            <<0>> \o [k \in 1..len |-> col[k] \div Base])

\* a * k for 0 <= k <= 2^15: the low and the high parts of the digit products
NatMulSmall(a, k) ==
  NatAdd(<<>> \o [j \in 1..Len(a) |-> (a[j] * k) % Base],
         <<0>> \o [j \in 1..Len(a) |-> (a[j] * k) \div Base])

\* a * b for b of at most three digits
NatMul(a, b) ==
  NatAdd(NatMulSmall(a, Digit(b, 1)),
         NatAdd(<<0>> \o NatMulSmall(a, Digit(b, 2)),
                <<0, 0>> \o NatMulSmall(a, Digit(b, 3))))

NatShl(a, bits) ==
  [j \in 1..(bits \div 15) |-> 0] \o NatMulSmall(a, Pow2(bits % 15))

\* -1, 0, 1 as a < b, a = b, a > b: decided by the highest digit that differs
NatCmp(a, b) ==
  LET len == IF Len(a) > Len(b) THEN Len(a) ELSE Len(b)
      diff == {k \in 1..len : Digit(a, k) # Digit(b, k)}
  IN IF diff = {} THEN 0
     ELSE LET top == CHOOSE k \in diff : \A l \in diff : l <= k
          IN IF Digit(a, top) < Digit(b, top) THEN -1 ELSE 1
NatLe(a, b) == NatCmp(a, b) <= 0

\* A signed exact value is a pair [pos, neg] of naturals, standing for
\* pos - neg, in units of 2^UnitExp: the square of the least fp16 magnitude.
UnitExp == 2 * ((-24) - 23)
SZero == [pos |-> <<>>, neg |-> <<>>]
SAdd(a, b) == [pos |-> NatAdd(a.pos, b.pos), neg |-> NatAdd(a.neg, b.neg)]
SSum(q) ==
  [pos |-> NatSum([idx \in 1..Len(q) |-> q[idx].pos]),
   neg |-> NatSum([idx \in 1..Len(q) |-> q[idx].neg])]
SMag(a) == NatAdd(a.pos, a.neg)
\* the exact value of sign * mag * 2^e
SMake(sign, mag, e) ==
  LET v == NatShl(mag, e - UnitExp)
  IN IF sign = 0 THEN [pos |-> v, neg |-> <<>>] ELSE [pos |-> <<>>, neg |-> v]
\* the exact value of a finite binary32
SFloat(f) == SMake(f.s, NatFromInt(f.m), f.e)
\* the exact value of v * dx * dy for an integer v and finite floats dx, dy
SProduct(v, dx, dy) ==
  SMake(((IF v < 0 THEN 1 ELSE 0) + dx.s + dy.s) % 2,
        NatMul(NatMul(NatFromInt(Abs(v)), NatFromInt(dx.m)), NatFromInt(dy.m)),
        dx.e + dy.e)
SNeg(a) == [pos |-> a.neg, neg |-> a.pos]
SEq(a, b) == NatCmp(NatAdd(a.pos, b.neg), NatAdd(a.neg, b.pos)) = 0
\* |a - b| * 2^24 <= k * t
SWithin(a, b, k, t) ==
  LET u == NatShl(NatAdd(a.pos, b.neg), 24)
      v == NatShl(NatAdd(a.neg, b.pos), 24)
      tol == NatMulSmall(t, k)
  IN NatLe(u, NatAdd(v, tol)) /\ NatLe(v, NatAdd(u, tol))

\* The magnitude of a block's element products: sum of |w_i| * |a_i|.
ElemMag(xb, yb) ==
  SeqSum([j \in 1..16 |-> Abs((xb.qs[j] % 16) - 8) * Abs(yb.qs[j])
                          + Abs((xb.qs[j] \div 16) - 8) * Abs(yb.qs[j + 16])])

\* The exact value of P_b * weight_scale_b * activation_scale_b of block b
ExactBlock(h, b) ==
  LET xb == XBlock(h.x, b)
      yb == YBlock(h.y, b)
  IN SProduct(RefBlockSum(xb, yb), fp16_to_fp32(xb.d), fp16_to_fp32(yb.d))

\* The exact sum of ExactBlock over the first k blocks
ExactSum(h, k) == SSum(<<>> \o [b \in 1..k |-> ExactBlock(h, b - 1)])

\* The magnitude of the element products of block b, scaled
MagBlock(h, b) ==
  LET xb == XBlock(h.x, b)
      yb == YBlock(h.y, b)
  IN SMag(SProduct(ElemMag(xb, yb), fp16_to_fp32(xb.d), fp16_to_fp32(yb.d)))

\* The sum of MagBlock over the first k blocks
MagSum(h, k) == NatSum([b \in 1..k |-> MagBlock(h, b - 1)])

\* Dequantize, multiply, sum over the 32 elements of one block, exactly:
\* element i is ((nibble_i - 8) * weight_scale) * (qs_i * activation_scale)
DirectElem(xb, yb, idx) ==
  LET byte == xb.qs[(idx % 16) + 1]
      w == (IF idx < 16 THEN byte % 16 ELSE byte \div 16) - 8
  IN SProduct(w * yb.qs[idx + 1], fp16_to_fp32(xb.d), fp16_to_fp32(yb.d))
DirectSum(xb, yb) == SSum(<<>> \o [idx \in 1..QK4_0 |-> DirectElem(xb, yb, idx - 1)])

\* C4: for every n that is a positive multiple of 32 (finite scales) the
\* value a kernel has stored when it returns is the sum over the blocks of
\* P_k * weight_scale_k * activation_scale_k up to rounding: it differs from
\* the exact sum by at most (nb + 8) * 2^-24 times the sum of the magnitudes
\* of the element products; for n = 32 it is within 2 * 2^-24 of the direct
\* element-by-element sum.
C4_ScaledBlockSum ==
  (pc = "idle" /\ hist # <<>>) =>
    LET h == hist[Len(hist)]
        k == h.n \div QK4_0
    IN (ValidN(h.n) /\ FiniteScales(h)) =>
         /\ IsFinite(h.s)
         /\ SWithin(SFloat(h.s), ExactSum(h, k), k + 8, MagSum(h, k))
         /\ k = 1 => SWithin(SFloat(h.s), DirectSum(XBlock(h.x, 0), YBlock(h.y, 0)),
                             2, MagSum(h, k))

\* both kernels have stored a non-zero, inexact sum over 7 blocks, and one
\* a non-zero single-block sum
C4_Witness ==
  /\ Len(hist) = 2
  /\ hist[1].kernel # hist[2].kernel
  /\ hist[1].n = 7 * QK4_0 /\ FiniteScales(hist[1])
  /\ ~IsZero(hist[1].s) /\ ~IsZero(hist[2].s)
  /\ ~SEq(SFloat(hist[1].s), ExactSum(hist[1], 7))

\* The blocks in which the inputs of two finished calls differ.
ChangedBlocks(ha, hb) ==
  {k \in 0..((ha.n \div QK4_0) - 1) :
     XBlock(ha.x, k) # XBlock(hb.x, k) \/ YBlock(ha.y, k) # YBlock(hb.y, k)}
\* Two calls of one kernel whose inputs differ in the scale of one block only.
OneScaleChanged(ha, hb) ==
  /\ ha.kernel = hb.kernel
  /\ ha.n = hb.n
  /\ ValidN(ha.n)
  /\ Cardinality(ChangedBlocks(ha, hb)) = 1
  /\ \A k \in ChangedBlocks(ha, hb) :
       /\ XBlock(ha.x, k).qs = XBlock(hb.x, k).qs
       /\ YBlock(ha.y, k).qs = YBlock(hb.y, k).qs
\* P_k * (ws'_k * as'_k - ws_k * as_k), exactly, for the changed block k
ScaleEffect(ha, hb) ==
  LET k == CHOOSE k \in ChangedBlocks(ha, hb) : TRUE
      P == RefBlockSum(XBlock(ha.x, k), YBlock(ha.y, k))
  IN SAdd(SProduct(P, fp16_to_fp32(XBlock(hb.x, k).d), fp16_to_fp32(YBlock(hb.y, k).d)),
          SNeg(SProduct(P, fp16_to_fp32(XBlock(ha.x, k).d), fp16_to_fp32(YBlock(ha.y, k).d))))
ResultChange(ha, hb) == SAdd(SFloat(hb.s), SNeg(SFloat(ha.s)))
\* every block but the changed one contributes the same term to both calls
OthersUnchanged(ha, hb) ==
  /\ Len(ha.terms) = Len(hb.terms)
  /\ \A j \in 1..Len(ha.terms) :
       IF ha.terms[j].xq \in ChangedBlocks(ha, hb)
       THEN ha.terms[j].p = hb.terms[j].p
       ELSE ha.terms[j] = hb.terms[j]

\* C7 (as stated): when only the scale of one block k changes from a call to
\* a later one, the result of a kernel changes by exactly P_k times the
\* change of weight_scale_k * activation_scale_k, and the other blocks'
\* contributions do not change.
C7_ExactScaleIsolation ==
  \A a, b \in 1..Len(hist) :
    (a < b /\ OneScaleChanged(hist[a], hist[b])) =>
      /\ SEq(ResultChange(hist[a], hist[b]), ScaleEffect(hist[a], hist[b]))
      /\ OthersUnchanged(hist[a], hist[b])

\* C7 (amended): for a finished call and a later one that differ only in the
\* scale of one block k (all scales finite), the other blocks contribute the
\* same terms and block k the same integer sum, and the result changes by
\* P_k times the change of the scale product up to rounding: within
\* (nb + 8) * 2^-24 times the element-product magnitudes of the two inputs.
C7_ScaleIsolation ==
  \A a, b \in 1..Len(hist) :
    (/\ pc = "idle"
     /\ a < b
     /\ OneScaleChanged(hist[a], hist[b])
     /\ FiniteScales(hist[a]) /\ FiniteScales(hist[b])) =>
      /\ OthersUnchanged(hist[a], hist[b])
      /\ SWithin(ResultChange(hist[a], hist[b]), ScaleEffect(hist[a], hist[b]),
                 (hist[a].n \div QK4_0) + 8,
                 NatAdd(MagSum(hist[a], hist[a].n \div QK4_0),
                        MagSum(hist[b], hist[b].n \div QK4_0)))

\* the optimized kernel has run twice on 7 blocks, the scale of a block of
\* the 4-wide loop changed in between, and the result changed
C7_Witness ==
  /\ Len(hist) = 2
  /\ hist[1].kernel = "optimized"
  /\ hist[1].n = 7 * QK4_0
  /\ OneScaleChanged(hist[1], hist[2])
  /\ ChangedBlocks(hist[1], hist[2]) = {2}
  /\ hist[1].s # hist[2].s

\* The positions of main at and after the timing of the optimized kernel:
\* timing it, printing its speedup, the size sweep, the return.
AcceptingPhases ==
  {"bench_opt", "results", "sweep", "s_warmup", "s_warmup_opt", "s_orig", "s_opt", "exit"}

\* C10: after the correctness check has found FAIL, main does not go on as
\* after PASS: it does not time the optimized kernel, report its speedup or
\* return success.
C10_FailHaltsAcceptance ==
  status = "FAIL" => (mpc \notin AcceptingPhases /\ ret # "0")

\* The block indices the terms ts read: packed data, elements, both scales.
BlocksRead(ts) ==
  UNION {{ts[k].xq, ts[k].yq, ts[k].xd, ts[k].yd} : k \in 1..Len(ts)}

\* C11: for every n >= 0 every block a kernel reads has an index in
\* 0 .. floor(n/32) - 1; each iteration of the optimized kernel's 4-wide loop
\* that starts at ib hands out the addresses x[ib+8], y[ib+8], y[ib+10] and
\* nothing else does; a target at or beyond floor(n/32) is not read; and the
\* kernel without the three prefetch statements stores the same value from the
\* same terms of the same blocks.
C11_PrefetchNoEffect ==
  /\ BlocksRead(terms) \subseteq 0..(nb - 1)
  /\ arg.kernel # "optimized" => hints = <<>>
  /\ arg.kernel = "optimized" =>
       LET quads == CountPath(terms, "quad") \div 4 IN
         /\ Len(hints) = 3 * quads
         /\ \A j \in 1..quads :
              /\ hints[3 * j - 2] = [buf |-> "x", idx |-> 4 * (j - 1) + 8]
              /\ hints[3 * j - 1] = [buf |-> "y", idx |-> 4 * (j - 1) + 8]
              /\ hints[3 * j] = [buf |-> "y", idx |-> 4 * (j - 1) + 10]
  /\ \A k \in 1..Len(hints) :
       hints[k].idx >= nb => hints[k].idx \notin BlocksRead(terms)
  /\ \A a, b \in 1..Len(hist) :
       (/\ hist[a].kernel = "optimized"
        /\ hist[b].kernel = "optimized_noprefetch"
        /\ hist[a].n = hist[b].n
        /\ hist[a].x = hist[b].x
        /\ hist[a].y = hist[b].y) =>
          /\ hist[b].hints = <<>>
          /\ hist[a].s = hist[b].s
          /\ hist[a].terms = hist[b].terms
          /\ BlocksRead(hist[a].terms) = BlocksRead(hist[b].terms)
          /\ BlocksRead(hist[a].terms) = 0..((hist[a].n \div QK4_0) - 1)

\* the optimized kernel with and without the prefetches has run on
\* n = 12 * 32 + 31: it prefetched block 8, inside the buffers, and blocks 16
\* and 18, beyond them, and stored a non-zero value
C11_Witness ==
  /\ Len(hist) = 2
  /\ hist[1].kernel = "optimized"
  /\ hist[2].kernel = "optimized_noprefetch"
  /\ hist[1].n = 12 * QK4_0 + (QK4_0 - 1)
  /\ \E k \in 1..Len(hist[1].hints) : hist[1].hints[k].idx < hist[1].n \div QK4_0
  /\ \E k \in 1..Len(hist[1].hints) : hist[1].hints[k].idx = 18
  /\ \E k \in 1..Len(hist[1].hints) : hist[1].hints[k].idx = 16
  /\ ~IsZero(hist[1].s)

\* The float f is the integer v, exactly.
ExactInt(f, v) ==
  IF v = 0 THEN IsZero(f)
  ELSE /\ IsFinite(f)
       /\ f.s = (IF v < 0 THEN 1 ELSE 0)
       /\ f.e <= 0
       /\ f.m = Abs(v) * Pow2(-f.e)

\* The eight products of lane l of the chained dot product of a block: the
\* low nibbles of bytes 4l-3 .. 4l with activations 4l-3 .. 4l, then the high
\* nibbles of the same bytes with activations 16 + 4l-3 .. 16 + 4l.
LaneProducts(xb, yb, l) ==
  [q \in 1..8 |->
     IF q <= 4 THEN ((xb.qs[4 * l - 4 + q] % 16) - 8) * yb.qs[4 * l - 4 + q]
     ELSE ((xb.qs[4 * l - 8 + q] \div 16) - 8) * yb.qs[16 + 4 * l - 8 + q]]

\* C12: the integer accumulation of a block does not overflow and is exact:
\* every nibble minus 8 is in -8..7 and its int8 lane holds it unwrapped; each
\* of the four 32-bit lanes of the chained dot product is the sum of its 8
\* products, each in -1016..1024, and fits 32 bits; the block partial sum
\* (the four lanes added, sumi0 + sumi1 in the scalar path) is in
\* -32512..32768, below 2^24 in magnitude, and every integer the code converts
\* to float (a lane, or sumi0 + sumi1) is converted exactly.
C12_BlockSumExact ==
  \A k \in 1..Len(terms) :
    LET t == terms[k]
        xb == XBlock(Deref(arg.vx), t.xq)
        yb == YBlock(Deref(arg.vy), t.yq)
        vn == VectorNibbles(vld1q_u8(xb.qs, 0))
        P == SeqSum(t.p)
    IN /\ \A j \in 1..(QK4_0 \div 2) :
            /\ ScalarNibbles(xb.qs[j])[1] \in -8..7
            /\ ScalarNibbles(xb.qs[j])[2] \in -8..7
            /\ vn.ls[j] = (xb.qs[j] % 16) - 8
            /\ vn.hs[j] = (xb.qs[j] \div 16) - 8
       /\ t.path # "scalar" =>
            \A l \in 1..4 :
              /\ \A q \in 1..8 : LaneProducts(xb, yb, l)[q] \in -1016..1024
              /\ t.p[l] = SeqSum(LaneProducts(xb, yb, l))
              /\ t.p[l] \in -(Pow2(30) + (Pow2(30) - 1)) - 1 .. Pow2(30) + (Pow2(30) - 1)
              /\ ExactInt(vcvtq_f32_s32(t.p)[l], t.p[l])
       /\ P = RefBlockSum(xb, yb)
       /\ P \in -32512..32768
       /\ Abs(P) < Pow2(24)
       /\ ExactInt(IntToFloat(P), P)

\* the optimized kernel has gone through its three loops on all-zero nibbles
\* and activations alternating between -128 and 127: a block sum is 32768,
\* another -32512, a lane 8192, in a vector loop and in the scalar loop
C12_Witness ==
  /\ arg.kernel = "optimized"
  /\ Paths(terms) = {"quad", "opt_pair", "scalar"}
  /\ \E k \in 1..Len(terms) : terms[k].path = "quad" /\ SeqSum(terms[k].p) = 32768
  /\ \E k \in 1..Len(terms) : terms[k].path = "quad" /\ SeqSum(terms[k].p) = -32512
  /\ \E k \in 1..Len(terms) : terms[k].path = "quad" /\ terms[k].p[1] = 8192
  /\ \E k \in 1..Len(terms) : terms[k].path = "scalar" /\ SeqSum(terms[k].p) = 32768

====
